---------------------------- MODULE Spec2Model ----------------------------
(***************************************************************************)
(* A model of the structs daemon: the store engine (src/src/service.rs),   *)
(* the connection sessions (src/src/client.rs), the path algebra           *)
(* (src/src/jsonpath.rs) and the operations of the wire protocol           *)
(* (src/src/rpc.rs).                                                       *)
(*                                                                         *)
(* Text (paths, JSON payloads, messages) is a sequence of one-character    *)
(* strings.  An Option<T> is a sequence of length 0 (None) or 1 (Some).    *)
(* A serde_json::Value is a tagged tuple: <<"null">>, <<"bool", b>>,       *)
(* <<"num", n>>, <<"str", text>>, <<"arr", seq>>, <<"obj", function>>.     *)
(***************************************************************************)
EXTENDS Integers, Sequences, FiniteSets, TLC

(***************************************************************************)
(* Characters and text                                                     *)
(***************************************************************************)

\* The separator of path segments.
SEP == "."

\* The byte value of the characters the model uses: String's ordering in the
\* BTreeMap of the store and of a JSON object is the ordering of the bytes.
Code(c) ==
  CASE c = " "  -> 32
    [] c = "\"" -> 34
    [] c = ","  -> 44
    [] c = "."  -> 46
    [] c = "0"  -> 48
    [] c = "1"  -> 49
    [] c = "2"  -> 50
    [] c = ":"  -> 58
    [] c = "["  -> 91
    [] c = "]"  -> 93
    [] c = "a"  -> 97
    [] c = "b"  -> 98
    [] c = "c"  -> 99
    [] c = "e"  -> 101
    [] c = "f"  -> 102
    [] c = "l"  -> 108
    [] c = "n"  -> 110
    [] c = "r"  -> 114
    [] c = "s"  -> 115
    [] c = "t"  -> 116
    [] c = "u"  -> 117
    [] c = "{"  -> 123
    [] c = "}"  -> 125

IsDigit(c) == c \in {"0", "1", "2", "3", "4", "5", "6", "7", "8", "9"}

DigitVal(c) == Code(c) - 48

\* s < t in the byte-wise lexicographic order of Rust's String.
RECURSIVE StrLess(_, _)
StrLess(s, t) ==
  IF t = <<>> THEN FALSE
  ELSE IF s = <<>> THEN TRUE
  ELSE IF Code(Head(s)) # Code(Head(t)) THEN Code(Head(s)) < Code(Head(t))
  ELSE StrLess(Tail(s), Tail(t))

\* The keys of a BTreeMap in iteration order (ascending).
RECURSIVE SortedKeys(_)
SortedKeys(S) ==
  IF S = {} THEN <<>>
  ELSE LET m == CHOOSE x \in S : \A y \in S \ {x} : StrLess(x, y)
       IN  <<m>> \o SortedKeys(S \ {m})

\* str::find(SEP) and str::rfind(SEP): the 1-based position of the first
\* (last) separator, 0 for None.
StrFind(p) ==
  IF \E i \in 1..Len(p) : p[i] = SEP
  THEN CHOOSE i \in 1..Len(p) : p[i] = SEP /\ \A j \in 1..(i-1) : p[j] # SEP
  ELSE 0

StrRFind(p) ==
  IF \E i \in 1..Len(p) : p[i] = SEP
  THEN CHOOSE i \in 1..Len(p) : p[i] = SEP /\ \A j \in (i+1)..Len(p) : p[j] # SEP
  ELSE 0

\* str::parse::<usize>(): <<n>> for Ok(n), <<>> for Err. The text is one or
\* more digits, after an optional plus sign.
RECURSIVE DecimalValue(_)
DecimalValue(s) ==
  IF s = <<>> THEN 0
  ELSE 10 * DecimalValue(SubSeq(s, 1, Len(s) - 1)) + DigitVal(s[Len(s)])

ParseUsize(s) ==
  LET d == IF s # <<>> /\ Head(s) = "+" THEN Tail(s) ELSE s
  IN  IF Len(d) > 0 /\ \A i \in 1..Len(d) : IsDigit(d[i])
      THEN <<DecimalValue(d)>>
      ELSE <<>>

(***************************************************************************)
(* serde_json values, Value::to_string and serde_json::from_str            *)
(***************************************************************************)

JNull    == <<"null">>
JBool(b) == <<"bool", b>>
JNum(n)  == <<"num", n>>
JStr(s)  == <<"str", s>>
JArr(a)  == <<"arr", a>>
JObj(f)  == <<"obj", f>>

Tag(v) == v[1]

EmptyMap == [k \in {} |-> JNull]

\* BTreeMap::insert / Map::insert: add or replace one entry.
MapInsert(f, k, v) == [n \in (DOMAIN f) \cup {k} |-> IF n = k THEN v ELSE f[n]]

\* BTreeMap::remove.
MapRemove(f, k) == [n \in (DOMAIN f) \ {k} |-> f[n]]

Digit(n) == CASE n = 0 -> "0" [] n = 1 -> "1" [] n = 2 -> "2" [] n = 3 -> "3"
              [] n = 4 -> "4" [] n = 5 -> "5" [] n = 6 -> "6" [] n = 7 -> "7"
              [] n = 8 -> "8" [] OTHER -> "9"

RECURSIVE Digits(_)
Digits(n) == IF n < 10 THEN <<Digit(n)>> ELSE Digits(n \div 10) \o <<Digit(n % 10)>>

\* Value::to_string: the compact JSON text, object members in key order.
RECURSIVE to_string(_), ElemsText(_), MembersText(_, _)
to_string(v) ==
  CASE Tag(v) = "null" -> <<"n", "u", "l", "l">>
    [] Tag(v) = "bool" -> IF v[2] THEN <<"t", "r", "u", "e">>
                                  ELSE <<"f", "a", "l", "s", "e">>
    [] Tag(v) = "num"  -> Digits(v[2])
    [] Tag(v) = "str"  -> <<"\"">> \o v[2] \o <<"\"">>
    [] Tag(v) = "arr"  -> <<"[">> \o ElemsText(v[2]) \o <<"]">>
    [] OTHER           -> <<"{">> \o MembersText(v[2], SortedKeys(DOMAIN v[2])) \o <<"}">>

ElemsText(a) ==
  IF a = <<>> THEN <<>>
  ELSE to_string(Head(a)) \o (IF Len(a) > 1 THEN <<",">> ELSE <<>>) \o ElemsText(Tail(a))

MembersText(f, ks) ==
  IF ks = <<>> THEN <<>>
  ELSE <<"\"">> \o Head(ks) \o <<"\"", ":">> \o to_string(f[Head(ks)])
       \o (IF Len(ks) > 1 THEN <<",">> ELSE <<>>) \o MembersText(f, Tail(ks))

\* The parser's results: ok, the value, and the position after it.
PFail == [ok |-> FALSE, v |-> JNull, i |-> 0]
POk(val, next) == [ok |-> TRUE, v |-> val, i |-> next]

RECURSIVE SkipWs(_, _)
SkipWs(t, i) == IF i <= Len(t) /\ t[i] = " " THEN SkipWs(t, i + 1) ELSE i

HasPrefix(t, i, w) == i + Len(w) - 1 <= Len(t) /\ SubSeq(t, i, i + Len(w) - 1) = w

RECURSIVE DigitsEnd(_, _)
DigitsEnd(t, i) == IF i <= Len(t) /\ IsDigit(t[i]) THEN DigitsEnd(t, i + 1) ELSE i

\* A JSON number of digits only: a leading zero stands alone.
ParseNumber(t, i) ==
  LET e == DigitsEnd(t, i)
  IN  IF t[i] = "0" /\ e > i + 1 THEN PFail
      ELSE POk(JNum(DecimalValue(SubSeq(t, i, e - 1))), e)

\* A JSON string without escapes: the text up to the closing quote.
ParseString(t, i) ==
  IF \E k \in (i+1)..Len(t) : t[k] = "\""
  THEN LET k == CHOOSE k \in (i+1)..Len(t) :
                  t[k] = "\"" /\ \A j \in (i+1)..(k-1) : t[j] # "\""
       IN  POk(JStr(SubSeq(t, i + 1, k - 1)), k + 1)
  ELSE PFail

RECURSIVE ParseValue(_, _), ParseElems(_, _, _), ParseMembers(_, _, _)
ParseValue(t, i0) ==
  LET i == SkipWs(t, i0)
  IN  IF i > Len(t) THEN PFail
      ELSE CASE t[i] = "n" -> IF HasPrefix(t, i, <<"n", "u", "l", "l">>)
                              THEN POk(JNull, i + 4) ELSE PFail
             [] t[i] = "t" -> IF HasPrefix(t, i, <<"t", "r", "u", "e">>)
                              THEN POk(JBool(TRUE), i + 4) ELSE PFail
             [] t[i] = "f" -> IF HasPrefix(t, i, <<"f", "a", "l", "s", "e">>)
                              THEN POk(JBool(FALSE), i + 5) ELSE PFail
             [] IsDigit(t[i]) -> ParseNumber(t, i)
             [] t[i] = "\"" -> ParseString(t, i)
             [] t[i] = "[" ->
                  LET j == SkipWs(t, i + 1)
                  IN  IF j <= Len(t) /\ t[j] = "]" THEN POk(JArr(<<>>), j + 1)
                      ELSE ParseElems(t, j, <<>>)
             [] t[i] = "{" ->
                  LET j == SkipWs(t, i + 1)
                  IN  IF j <= Len(t) /\ t[j] = "}" THEN POk(JObj(EmptyMap), j + 1)
                      ELSE ParseMembers(t, j, EmptyMap)
             [] OTHER -> PFail

\* The elements of an array from position i on, acc the elements read so far.
ParseElems(t, i, acc) ==
  LET r == ParseValue(t, i)
      j == SkipWs(t, r.i)
  IN  IF ~r.ok \/ j > Len(t) THEN PFail
      ELSE IF t[j] = "," THEN ParseElems(t, j + 1, Append(acc, r.v))
      ELSE IF t[j] = "]" THEN POk(JArr(Append(acc, r.v)), j + 1)
      ELSE PFail

\* The members of an object from position i on; a repeated name keeps the
\* last value (Map::insert).
ParseMembers(t, i0, acc) ==
  LET i == SkipWs(t, i0)
  IN  IF i > Len(t) \/ t[i] # "\"" THEN PFail
      ELSE LET k == ParseString(t, i)
               c == SkipWs(t, k.i)
           IN  IF ~k.ok \/ c > Len(t) \/ t[c] # ":" THEN PFail
               ELSE LET r == ParseValue(t, c + 1)
                        j == SkipWs(t, r.i)
                    IN  IF ~r.ok \/ j > Len(t) THEN PFail
                        ELSE IF t[j] = ","
                             THEN ParseMembers(t, j + 1, MapInsert(acc, k.v[2], r.v))
                        ELSE IF t[j] = "}"
                             THEN POk(JObj(MapInsert(acc, k.v[2], r.v)), j + 1)
                        ELSE PFail

\* serde_json::from_str: one value and nothing but whitespace after it.
from_str(t) ==
  LET r == ParseValue(t, 1)
  IN  IF r.ok /\ SkipWs(t, r.i) > Len(t) THEN [ok |-> TRUE, v |-> r.v]
      ELSE [ok |-> FALSE, v |-> JNull]

(***************************************************************************)
(* The path algebra (jsonpath.rs)                                          *)
(***************************************************************************)

None == <<>>
Some(x) == <<x>>
IsSome(o) == Len(o) = 1

\* Path::next: the first segment and the text after the first separator.
next(p) ==
  LET x == StrFind(p)
  IN  IF x > 0
      THEN [n |-> Some(SubSeq(p, 1, x - 1)),
            r |-> IF Len(p) > x - 1 THEN Some(SubSeq(p, x + 1, Len(p))) ELSE None]
      ELSE [n |-> IF Len(p) > 0 THEN Some(p) ELSE None, r |-> None]

\* Path::_trim: cut c segments off the end; the path that is left and the
\* segment cut last, or (None, None) when a separator is missing.
RECURSIVE TrimLoop(_, _, _)
TrimLoop(p, n, c) ==
  IF c = 0 THEN [path |-> Some(p), leaf |-> n]
  ELSE LET x == StrRFind(p)
       IN  IF x > 0 THEN TrimLoop(SubSeq(p, 1, x - 1), Some(SubSeq(p, x + 1, Len(p))), c - 1)
           ELSE [path |-> None, leaf |-> None]

\* _trim that gives up only when the count is above the number of segments.
trim_upto(p, c) ==
  IF c > 0 /\ ~IsSome(TrimLoop(p, None, c).path) /\ IsSome(TrimLoop(p, None, c - 1).path)
  THEN [path |-> Some(<<>>), leaf |-> TrimLoop(p, None, c - 1).path]
  ELSE TrimLoop(p, None, c)

trim(p, c) == TrimLoop(p, None, c)

\* index_array with the bound off by one: the length passes as an index.
index_array_inclusive(len, name) ==
  IF IsSome(ParseUsize(name)) /\ len >= ParseUsize(name)[1] THEN Some(ParseUsize(name)[1])
  ELSE None

\* index_array: the segment as an index into an array of length len.
index_array(len, name) ==
  LET i == ParseUsize(name)
  IN  IF IsSome(i) /\ len > i[1] THEN Some(i[1]) ELSE None

\* json_deref: one segment against one value.
json_deref(name, v) ==
  CASE Tag(v) = "obj" -> IF name \in DOMAIN v[2] THEN Some(v[2][name]) ELSE None
    [] Tag(v) = "arr" -> LET i == ParseUsize(name)
                         IN  IF IsSome(i) /\ i[1] < Len(v[2]) THEN Some(v[2][i[1] + 1])
                             ELSE None
    [] OTHER -> None

\* deref that, when the first segment does not resolve, gives the path
\* after that segment.
deref_rest(p, v) ==
  LET nr == next(p)
      d  == IF IsSome(nr.n) THEN json_deref(nr.n[1], v) ELSE None
  IN  IF IsSome(d) THEN [v |-> d, p |-> nr.r]
      ELSE [v |-> None, p |-> IF IsSome(nr.r) THEN nr.r ELSE Some(<<>>)]

\* Path::deref: the value under the first segment and the rest of the path,
\* or no value and the whole path.
deref(p, v) ==
  LET nr == next(p)
      d  == IF IsSome(nr.n) THEN json_deref(nr.n[1], v) ELSE None
  IN  IF IsSome(d) THEN [v |-> d, p |-> nr.r] ELSE [v |-> None, p |-> Some(p)]

\* find that stops after the first segment that resolves.
find_first(p, v) ==
  IF IsSome(deref(p, v).v) THEN [v |-> deref(p, v).v, p |-> None]
  ELSE [v |-> None, p |-> deref(p, v).p]

\* Path::find: deref until the path is used up or a segment does not resolve.
RECURSIVE find(_, _)
find(p, v) ==
  LET d == deref(p, v)
  IN  IF IsSome(d.v)
      THEN IF IsSome(d.p) THEN find(d.p[1], d.v[1]) ELSE [v |-> d.v, p |-> None]
      ELSE IF IsSome(d.p) THEN [v |-> None, p |-> d.p] ELSE [v |-> None, p |-> None]

\* Path::value: the value of an exact match only.
value(p, v) ==
  LET f == find(p, v)
  IN  IF IsSome(f.v) /\ ~IsSome(f.p) THEN f.v ELSE None

(***************************************************************************)
(* Operations and requests (rpc.rs)                                        *)
(***************************************************************************)

CMD_SET      == "set"
CMD_GET      == "get"
CMD_RANGE    == "range"
CMD_FOUND    == "found"
CMD_NONE     == "none"
CMD_DELETE   == "delete"
CMD_SHUTDOWN == "stop"
CMD_OK       == "ok"
CMD_ERROR    == "error"

\* Operation::new: the verb, the arguments and the optional payload.
Operation(name, args, payload) == [name |-> name, args |-> args, data |-> payload]

new_ok == Operation(CMD_OK, <<>>, None)
new_found(name, text) == Operation(CMD_FOUND, <<name>>, Some(text))
new_none(name) == Operation(CMD_NONE, <<name>>, None)
new_get(name) == Operation(CMD_GET, <<name>>, None)
new_range(name) == Operation(CMD_RANGE, <<name>>, None)
new_set(name, text) == Operation(CMD_SET, <<name>>, Some(text))
new_delete(name) == Operation(CMD_DELETE, <<name>>, None)
new_shutdown == Operation(CMD_SHUTDOWN, <<>>, None)

\* The error reply: the verb error with the message as its payload.
new_error(msg) == Operation(CMD_ERROR, <<>>, Some(msg))

\* Error's Display text.
ErrNone      == ""
ErrNotFound  == "NotFound"
ErrMalformed == "Malformed"
ErrSerde     == "SerdeError"

ErrorText(err) ==
  IF err = ErrNotFound THEN <<"N", "o", "t", " ", "f", "o", "u", "n", "d">>
  ELSE <<"M", "a", "l", "f", "o", "r", "m", "e", "d">>

(***************************************************************************)
(* The store engine's functions (service.rs)                               *)
(***************************************************************************)

\* fetch: the value a path names in the store, or the error.
fetch_result(f) ==
  IF IsSome(f.p) THEN [err |-> ErrNotFound, v |-> JNull]
  ELSE IF IsSome(f.v) THEN [err |-> ErrNone, v |-> f.v[1]]
  ELSE [err |-> ErrNotFound, v |-> JNull]

fetch_key(store, kp) ==
  IF ~IsSome(kp.n) THEN [err |-> ErrMalformed, v |-> JNull]
  ELSE fetch_result(IF kp.n[1] \in DOMAIN store
                    THEN IF IsSome(kp.r) THEN find(kp.r[1], store[kp.n[1]])
                         ELSE [v |-> Some(store[kp.n[1]]), p |-> None]
                    ELSE [v |-> None, p |-> None])

fetch(store, key) == fetch_key(store, next(key))

\* write: store val under key, or at the path inside the value under key.
\* write_leaf is the update of the container rval at leaf.
write_leaf(store, key, rval, leaf, val) ==
  IF ~IsSome(leaf) THEN [err |-> ErrNotFound, store |-> store]
  ELSE IF ~IsSome(rval) THEN [err |-> ErrNotFound, store |-> store]
  ELSE CASE Tag(rval[1]) = "obj" ->
              [err |-> ErrNone,
               store |-> MapInsert(store, key, JObj(MapInsert(rval[1][2], leaf[1], val)))]
         [] Tag(rval[1]) = "arr" ->
              IF IsSome(index_array(Len(rval[1][2]), leaf[1]))
              THEN [err |-> ErrNone,
                    store |-> MapInsert(store, key,
                                JArr([rval[1][2] EXCEPT
                                        ![index_array(Len(rval[1][2]), leaf[1])[1] + 1] = val]))]
              ELSE [err |-> ErrMalformed, store |-> store]
         [] OTHER -> [err |-> ErrMalformed, store |-> store]

\* write_trimmed that makes an entry for a key that is missing.
write_trimmed_create(store, key, pl, val) ==
  IF key \notin DOMAIN store THEN [err |-> ErrNone, store |-> MapInsert(store, key, val)]
  ELSE write_leaf(store, key,
                  IF IsSome(pl.path) THEN value(pl.path[1], store[key]) ELSE Some(store[key]),
                  pl.leaf, val)

write_trimmed(store, key, pl, val) ==
  IF key \notin DOMAIN store THEN [err |-> ErrNotFound, store |-> store]
  ELSE write_leaf(store, key,
                  IF IsSome(pl.path) THEN value(pl.path[1], store[key]) ELSE Some(store[key]),
                  pl.leaf, val)

\* write that keeps the value of a key that is present (insert if absent).
write_keep(store, key, path, val) ==
  IF ~IsSome(path)
  THEN [err |-> ErrNone,
        store |-> IF key \in DOMAIN store THEN store ELSE MapInsert(store, key, val)]
  ELSE write_trimmed(store, key, trim(path[1], 1), val)

write(store, key, path, val) ==
  IF ~IsSome(path) THEN [err |-> ErrNone, store |-> MapInsert(store, key, val)]
  ELSE write_trimmed(store, key, trim(path[1], 1), val)

\* What one request does: the reply sent (if any), the store afterwards and
\* the error the handler returns (ErrNone for Ok).
Handled(reply, store, err) == [reply |-> reply, store |-> store, err |-> err]

\* run_get_reply that takes the entry of the path out of the store when it
\* replies found.
run_get_reply_take(store, name, f) ==
  IF f.err = ErrNone
  THEN Handled(Some(new_found(name, to_string(f.v))), MapRemove(store, name), ErrNone)
  ELSE IF f.err = ErrNotFound
  THEN Handled(Some(new_none(name)), store, ErrNone)
  ELSE Handled(None, store, f.err)

run_get_reply(store, name, f) ==
  IF f.err = ErrNone
  THEN Handled(Some(new_found(name, to_string(f.v))), store, ErrNone)
  ELSE IF f.err = ErrNotFound
  THEN Handled(Some(new_none(name)), store, ErrNone)
  ELSE Handled(None, store, f.err)

run_get(store, cmd) ==
  IF Len(cmd.args) # 1 THEN Handled(None, store, ErrMalformed)
  ELSE run_get_reply(store, cmd.args[1], fetch(store, cmd.args[1]))

\* The names of an object's members as JSON strings, in key order.
KeyStrings(ks) == [i \in 1..Len(ks) |-> JStr(ks[i])]

\* run_range_reply that counts the indices of an array from 1.
run_range_reply_from1(store, name, f) ==
  IF f.err = ErrNotFound THEN Handled(Some(new_none(name)), store, ErrNone)
  ELSE IF f.err # ErrNone THEN Handled(None, store, f.err)
  ELSE CASE Tag(f.v) = "arr" ->
              Handled(Some(new_found(name,
                        to_string(JArr([i \in 1..Len(f.v[2]) |-> JNum(i)])))),
                      store, ErrNone)
         [] Tag(f.v) = "obj" ->
              Handled(Some(new_found(name,
                        to_string(JArr(KeyStrings(SortedKeys(DOMAIN f.v[2])))))),
                      store, ErrNone)
         [] OTHER -> Handled(Some(new_none(name)), store, ErrNone)

run_range_reply(store, name, f) ==
  IF f.err = ErrNotFound THEN Handled(Some(new_none(name)), store, ErrNone)
  ELSE IF f.err # ErrNone THEN Handled(None, store, f.err)
  ELSE CASE Tag(f.v) = "arr" ->
              Handled(Some(new_found(name,
                        to_string(JArr([i \in 1..Len(f.v[2]) |-> JNum(i - 1)])))),
                      store, ErrNone)
         [] Tag(f.v) = "obj" ->
              Handled(Some(new_found(name,
                        to_string(JArr(KeyStrings(SortedKeys(DOMAIN f.v[2])))))),
                      store, ErrNone)
         [] OTHER -> Handled(Some(new_none(name)), store, ErrNone)

run_range(store, cmd) ==
  IF Len(cmd.args) # 1 THEN Handled(None, store, ErrMalformed)
  ELSE run_range_reply(store, cmd.args[1], fetch(store, cmd.args[1]))

run_set_reply(res) ==
  IF res.err = ErrNone THEN Handled(Some(new_ok), res.store, ErrNone)
  ELSE Handled(Some(new_error(ErrorText(res.err))), res.store, ErrNone)

run_set_write(store, kp, parsed) ==
  IF ~parsed.ok THEN Handled(None, store, ErrSerde)
  ELSE run_set_reply(IF IsSome(kp.n) /\ IsSome(kp.r)
                     THEN write(store, kp.n[1], Some(kp.r[1]), parsed.v)
                     ELSE IF IsSome(kp.n) THEN write(store, kp.n[1], None, parsed.v)
                     ELSE [err |-> ErrMalformed, store |-> store])

run_set(store, cmd) ==
  IF Len(cmd.args) # 1 THEN Handled(None, store, ErrMalformed)
  ELSE run_set_write(store, next(cmd.args[1]),
                     IF IsSome(cmd.data) THEN from_str(cmd.data[1])
                     ELSE [ok |-> TRUE, v |-> JNull])

\* run_delete that replies ok and removes nothing.
run_delete_keep(store, cmd) ==
  IF Len(cmd.args) # 1 THEN Handled(None, store, ErrMalformed)
  ELSE Handled(Some(new_ok), store, ErrNone)

\* run_delete that removes every entry of the store.
run_delete_all(store, cmd) ==
  IF Len(cmd.args) # 1 THEN Handled(None, store, ErrMalformed)
  ELSE Handled(Some(new_ok), <<>>, ErrNone)

run_delete(store, cmd) ==
  IF Len(cmd.args) # 1 THEN Handled(None, store, ErrMalformed)
  ELSE Handled(Some(new_ok), MapRemove(store, cmd.args[1]), ErrNone)

run_stop(store, cmd) == Handled(Some(new_ok), store, ErrNone)

\* One turn of run's loop on one request: what the handler did and where the
\* engine goes: on with the loop ("run"), out of it by break ("final"), or out
\* of run by the error run_delete or run_stop returned ("failed").
\* The turn of a Delete that leaves the loop on an empty mapping whatever the
\* finalize flag.
AfterDelete_unconditional(fin, h) ==
  [h |-> h,
   to |-> IF h.err # ErrNone THEN "failed"
          ELSE IF DOMAIN h.store = {} THEN "final"
          ELSE "run"]

AfterDelete(fin, h) ==
  [h |-> h,
   to |-> IF h.err # ErrNone THEN "failed"
          ELSE IF fin /\ DOMAIN h.store = {} THEN "final"
          ELSE "run"]

\* Step that answers a verb it does not know with an error reply.
Step_reply_unknown(store, fin, cmd) ==
  CASE cmd.name = CMD_GET      -> [h |-> run_get(store, cmd), to |-> "run"]
    [] cmd.name = CMD_RANGE    -> [h |-> run_range(store, cmd), to |-> "run"]
    [] cmd.name = CMD_SET      -> [h |-> run_set(store, cmd), to |-> "run"]
    [] cmd.name = CMD_DELETE   -> AfterDelete(fin, run_delete(store, cmd))
    [] cmd.name = CMD_SHUTDOWN -> [h |-> run_stop(store, cmd), to |-> "final"]
    [] OTHER -> [h |-> Handled(Some(new_error(ErrorText(ErrMalformed))), store, ErrNone),
                 to |-> "run"]

\* Step that goes on with the loop after a stop.
Step_stop_continues(store, fin, cmd) ==
  CASE cmd.name = CMD_GET      -> [h |-> run_get(store, cmd), to |-> "run"]
    [] cmd.name = CMD_RANGE    -> [h |-> run_range(store, cmd), to |-> "run"]
    [] cmd.name = CMD_SET      -> [h |-> run_set(store, cmd), to |-> "run"]
    [] cmd.name = CMD_DELETE   -> AfterDelete(fin, run_delete(store, cmd))
    [] cmd.name = CMD_SHUTDOWN -> [h |-> run_stop(store, cmd), to |-> "run"]
    [] OTHER -> [h |-> Handled(None, store, ErrNone), to |-> "run"]

Step(store, fin, cmd) ==
  CASE cmd.name = CMD_GET      -> [h |-> run_get(store, cmd), to |-> "run"]
    [] cmd.name = CMD_RANGE    -> [h |-> run_range(store, cmd), to |-> "run"]
    [] cmd.name = CMD_SET      -> [h |-> run_set(store, cmd), to |-> "run"]
    [] cmd.name = CMD_DELETE   -> AfterDelete(fin, run_delete(store, cmd))
    [] cmd.name = CMD_SHUTDOWN -> [h |-> run_stop(store, cmd), to |-> "final"]
    [] OTHER -> [h |-> Handled(None, store, ErrNone), to |-> "run"]

(***************************************************************************)
(* The inputs of the model                                                 *)
(***************************************************************************)

\* The number of connection sessions and of requests they submit in all.
NumSessions == 2
MaxRequests == 3

Sessions == 1..NumSessions

\* Paths the clients name.
PathA    == <<"a">>
PathB    == <<"b">>
PathAB   == <<"a", ".", "b">>
PathAA   == <<"a", ".", "a">>
PathABA  == <<"a", ".", "b", ".", "a">>
PathAA1  == <<"a", ".", "a", ".", "1">>
PathAA2  == <<"a", ".", "a", ".", "2">>
PathABAA == <<"a", ".", "b", ".", "a", ".", "a">>
PathACA  == <<"a", ".", "c", ".", "a">>
PathBA   == <<"b", ".", "a">>
PathADot == <<"a", ".">>

TopPaths == {PathA, PathB}
NestedPaths == {PathAB, PathAA, PathABA, PathAA1, PathAA2, PathABAA, PathACA,
                PathBA, PathADot}
Paths == TopPaths \cup NestedPaths

\* Payload texts: 1, {"b":{"a":1},"a":[0,1]}, [] and the broken text {.
TextOne == <<"1">>
TextObj == <<"{", "\"", "b", "\"", ":", "{", "\"", "a", "\"", ":", "1", "}", ",",
             "\"", "a", "\"", ":", "[", "0", ",", " ", "1", "]", "}">>
TextEmptyArr == <<"[", "]">>
TextBroken == <<"{">>

Texts == {TextOne, TextObj, TextEmptyArr, TextBroken}

\* The operations a session can read off its connection: the well-formed
\* requests, requests with a wrong number of arguments, and a verb the engine
\* does not know.
WellFormedOps ==
  {new_get(p) : p \in {PathA, PathB, PathAB, PathABA, PathAA1, PathABAA, PathADot}}
  \cup {new_range(p) : p \in {PathA, PathB, PathAB, PathAA, PathABA}}
  \cup {new_delete(p) : p \in {PathA, PathB, PathAB}}
  \cup {new_set(PathA, t) : t \in Texts} \cup {new_set(PathB, TextOne)}
  \cup {new_set(p, TextOne) : p \in NestedPaths \ {PathAA}}
  \cup {new_set(PathAB, TextBroken)}
  \cup {new_shutdown}

MalformedOps ==
  {Operation(CMD_GET, <<>>, None), Operation(CMD_RANGE, <<PathA, PathB>>, None),
   Operation(CMD_SET, <<>>, Some(TextOne)), Operation(CMD_DELETE, <<>>, None),
   Operation(CMD_FOUND, <<PathA>>, Some(TextOne))}

Ops == WellFormedOps \cup MalformedOps

\* The first session submits any of the operations, the second session a few
\* of them, every further session a Delete.
FewOps == {new_get(PathA), new_set(PathA, TextOne), new_delete(PathA), new_shutdown}

OpsOf(s) == IF s = 1 THEN Ops ELSE IF s = 2 THEN FewOps ELSE {new_delete(PathA)}

NoOp == Operation("", <<>>, None)

(***************************************************************************)
(* The state                                                               *)
(***************************************************************************)

VARIABLES
  data,       \* the engine's mapping (run's data)
  finalize,   \* RunOptions.finalize
  timeout,    \* RunOptions.timeout: None, or Some(d) with d the idle window
  engine,     \* the engine thread: "run", "final" (out of the loop), "ok" or
              \* "err" (cleanup returned Ok or Err, process::exit not yet
              \* called) or "failed" (run returned an error)
  sock,       \* the endpoint's file exists
  chan,       \* the shared request channel: the requests not yet received
  pc,         \* each session: "read", "wait", "failed"
  rsp,        \* each session's reply channel: the replies not yet received
  out,        \* each session: the number of replies written to its connection
  submitted,  \* the number of requests submitted so far
  last,       \* the request the engine handled last, its reply, the mapping before
  refData,    \* the mapping of the sequential execution in arrival order
  refEngine,  \* the engine state of the sequential execution
  expect,     \* each session: the reply of the sequential execution to the
              \* request the session waits for
  pinned,     \* key -> text of the last top-level Set of the key that replied
              \* ok, with no Set or Delete on the key since
  deleted,    \* the keys deleted, with no Set on the key since
  wd,         \* the idle watchdog thread: "none" (no timeout configured),
              \* "wait" (in recv_timeout), "ok" or "err" (timed out, cleanup
              \* returned Ok or Err), "returned" or "panicked" (the channel
              \* ended and the drop of its Socket succeeded or panicked)
  poll,       \* the notifications in the watchdog's channel
  idle,       \* the time the watchdog has waited in its current recv_timeout
  quiet,      \* the time since the engine sent its last notification
  sig,        \* the signal handler: "armed", "ok" or "err" (it ran cleanup)
  code,       \* the exit status of the process, None while it runs
  cleanups,   \* the results of the calls of Socket::cleanup so far (TRUE: Ok)
  wire,       \* a connection's byte stream and what was written to and read
              \* from it
  calc        \* the last call of a function of the path algebra or of the
              \* duration parser: its name, its arguments and its result

lifeVars == <<timeout, wd, poll, idle, quiet, sig, code, cleanups>>

vars == <<data, finalize, engine, sock, chan, pc, rsp, out, submitted, last,
          refData, refEngine, expect, pinned, deleted, lifeVars, wire, calc>>

\* Request::new with one reply channel shared by all the sessions.
Request_shared(cmd, s) == [op |-> cmd, from |-> 1]

\* Request::new: the operation and the sender of the reply channel that the
\* session created for it.
Request(cmd, s) == [op |-> cmd, from |-> s]

\* No function was called.
NoCalc == [fn |-> "", arg |-> <<>>, res |-> <<>>]

\* A connection on which nothing was written.
NoWire == [stream |-> <<>>, closed |-> FALSE, sent |-> <<>>, got |-> <<>>]

\* The daemon started: the endpoint is bound, the engine is in its loop with
\* the signal handler set and, with a timeout, the watchdog waiting.
Start ==
  /\ data = EmptyMap
  /\ finalize \in BOOLEAN
  /\ engine = "run"
  /\ sock = TRUE
  /\ chan = <<>>
  /\ pc = [s \in Sessions |-> "read"]
  /\ rsp = [s \in Sessions |-> <<>>]
  /\ out = [s \in Sessions |-> 0]
  /\ submitted = 0
  /\ last = [op |-> NoOp, reply |-> None, before |-> EmptyMap, from |-> 0]
  /\ refData = EmptyMap
  /\ refEngine = "run"
  /\ expect = [s \in Sessions |-> None]
  /\ pinned = EmptyMap
  /\ deleted = {}
  /\ wd = IF IsSome(timeout) THEN "wait" ELSE "none"
  /\ poll = 0
  /\ idle = 0
  /\ quiet = 0
  /\ sig = "armed"
  /\ code = None
  /\ cleanups = <<>>
  /\ wire = NoWire
  /\ calc = NoCalc

\* A daemon with no idle timeout.
Init ==
  /\ timeout = None
  /\ Start

\* The request of session s is still in the shared channel.
InChan(s) == \E i \in 1..Len(chan) : chan[i].from = s

\* The top-level key of a request's path (the text before the first separator).
TopKey(cmd) == IF Len(cmd.args) = 1 THEN next(cmd.args[1]).n ELSE None

(***************************************************************************)
(* The connection sessions (client.rs)                                     *)
(***************************************************************************)

\* The sequential execution handles the request on its arrival.
RefArrive(s, r) ==
  IF refEngine = "run"
  THEN /\ refData' = r.h.store
       /\ refEngine' = r.to
       /\ expect' = [expect EXCEPT ![s] = r.h.reply]
  ELSE /\ UNCHANGED <<refData, refEngine>>
       /\ expect' = [expect EXCEPT ![s] = None]

\* handle that forwards the next operation without waiting for the reply.
SessionSubmit_pipelined(s, cmd) ==
  /\ code = None
  /\ engine # "failed"
  /\ pc[s] \in {"read", "wait"}
  /\ submitted < MaxRequests
  /\ submitted' = submitted + 1
  /\ chan' = Append(chan, Request(cmd, s))
  /\ pc' = [pc EXCEPT ![s] = "wait"]
  /\ rsp' = rsp
  /\ RefArrive(s, Step(refData, finalize, cmd))
  /\ UNCHANGED <<data, finalize, engine, sock, out, last, pinned, deleted,
                 lifeVars, wire, calc>>

\* handle: read one operation, send it to the engine with a fresh reply channel.
SessionSubmit(s, cmd) ==
  /\ code = None
  /\ engine # "failed"
  /\ pc[s] = "read"
  /\ submitted < MaxRequests
  /\ submitted' = submitted + 1
  /\ chan' = Append(chan, Request(cmd, s))
  /\ pc' = [pc EXCEPT ![s] = "wait"]
  /\ rsp' = [rsp EXCEPT ![s] = <<>>]
  /\ RefArrive(s, Step(refData, finalize, cmd))
  /\ UNCHANGED <<data, finalize, engine, sock, out, last, pinned, deleted,
                 lifeVars, wire, calc>>

\* handle: the send fails when the engine's receiver is gone.
SessionSendError(s, cmd) ==
  /\ code = None
  /\ engine = "failed"
  /\ pc[s] = "read"
  /\ submitted < MaxRequests
  /\ submitted' = submitted + 1
  /\ pc' = [pc EXCEPT ![s] = "failed"]
  /\ UNCHANGED <<data, finalize, engine, sock, chan, rsp, out, last,
                 refData, refEngine, expect, pinned, deleted, lifeVars, wire, calc>>

\* handle: receive the reply and write it to the connection.
SessionReply(s) ==
  /\ code = None
  /\ pc[s] = "wait"
  /\ rsp[s] # <<>>
  /\ out' = [out EXCEPT ![s] = @ + 1]
  /\ expect' = [expect EXCEPT ![s] = None]
  /\ rsp' = [rsp EXCEPT ![s] = Tail(rsp[s])]
  /\ pc' = [pc EXCEPT ![s] = "read"]
  /\ UNCHANGED <<data, finalize, engine, sock, chan, submitted, last,
                 refData, refEngine, pinned, deleted, lifeVars, wire, calc>>

\* handle: the receive fails when the request was dropped without a reply.
SessionRecvError(s) ==
  /\ code = None
  /\ pc[s] = "wait"
  /\ rsp[s] = <<>>
  /\ ~InChan(s)
  /\ pc' = [pc EXCEPT ![s] = "failed"]
  /\ UNCHANGED <<data, finalize, engine, sock, chan, rsp, out, submitted, last,
                 refData, refEngine, expect, pinned, deleted, lifeVars, wire, calc>>

(***************************************************************************)
(* The store engine (service.rs, run)                                      *)
(***************************************************************************)

\* The keys pinned after the engine handled cmd.
PinnedAfter(cmd, h, k) ==
  IF cmd.name \in {CMD_SET, CMD_DELETE} /\ IsSome(k)
  THEN IF cmd.name = CMD_SET /\ StrFind(cmd.args[1]) = 0 /\ h.reply = Some(new_ok)
          /\ IsSome(cmd.data)
       THEN MapInsert(pinned, k[1], cmd.data[1])
       ELSE MapRemove(pinned, k[1])
  ELSE pinned

\* The keys deleted after the engine handled cmd.
DeletedAfter(cmd, h, k) ==
  IF cmd.name = CMD_DELETE /\ IsSome(k) /\ StrFind(cmd.args[1]) = 0
     /\ h.reply = Some(new_ok)
  THEN deleted \cup {k[1]}
  ELSE IF cmd.name = CMD_SET /\ IsSome(k) THEN deleted \ {k[1]}
  ELSE deleted

\* recv that takes the newest request.
recv_newest(q) == [req |-> q[Len(q)], rest |-> SubSeq(q, 1, Len(q) - 1)]

\* Receiver::recv on the shared channel: the oldest request and the rest.
recv(q) == [req |-> Head(q), rest |-> Tail(q)]

\* Socket::cleanup that reports Ok and leaves the file.
cleanup_keep(exists) == [ok |-> TRUE, exists |-> exists]

\* Socket::cleanup, fs::remove_file on the endpoint's path: Ok and the file
\* is gone when it existed, Err when there is no such file.
cleanup(exists) == [ok |-> exists, exists |-> FALSE]

\* The exit status a thread passes to process::exit after its cleanup.
ExitStatus(ok) == IF ok THEN 0 ELSE 1

\* The effect of one turn of the loop on request req, r what Step made of it.
\* A turn that goes on with the loop ends with a notification to the
\* watchdog; a turn that returns an error out of run drops run's values:
\* the notification sender, the channel's receiver, and the Socket, whose
\* drop calls cleanup.
EngineApply(req, r) ==
  /\ data' = r.h.store
  /\ engine' = r.to
  /\ sock' = IF r.to = "failed" THEN cleanup(sock).exists ELSE sock
  /\ cleanups' = IF r.to = "failed" THEN Append(cleanups, cleanup(sock).ok)
                 ELSE cleanups
  /\ poll' = IF IsSome(timeout) /\ r.to = "run" THEN poll + 1 ELSE poll
  /\ quiet' = IF IsSome(timeout) /\ r.to = "run" THEN 0 ELSE quiet
  /\ chan' = IF r.to = "failed" THEN <<>> ELSE recv(chan).rest
  /\ rsp' = IF IsSome(r.h.reply)
            THEN [rsp EXCEPT ![req.from] = Append(@, r.h.reply[1])]
            ELSE rsp
  /\ last' = [op |-> req.op, reply |-> r.h.reply, before |-> data, from |-> req.from]
  /\ pinned' = PinnedAfter(req.op, r.h, TopKey(req.op))
  /\ deleted' = DeletedAfter(req.op, r.h, TopKey(req.op))

\* One turn of the loop: receive the request at the head of the channel,
\* handle it, send the reply on the request's channel.
EngineTurn(verbs) ==
  /\ code = None
  /\ engine = "run"
  /\ chan # <<>>
  /\ recv(chan).req.op.name \in verbs
  /\ EngineApply(recv(chan).req, Step(data, finalize, recv(chan).req.op))
  /\ UNCHANGED <<finalize, pc, out, submitted, refData, refEngine, expect,
                 timeout, wd, idle, sig, code, wire, calc>>

EngineGet == EngineTurn({CMD_GET})
EngineRange == EngineTurn({CMD_RANGE})
EngineSet == EngineTurn({CMD_SET})
EngineDelete == EngineTurn({CMD_DELETE})
EngineStop == EngineTurn({CMD_SHUTDOWN})
EngineUnknown ==
  EngineTurn({o.name : o \in Ops} \ {CMD_GET, CMD_RANGE, CMD_SET, CMD_DELETE, CMD_SHUTDOWN})

\* What the sessions and the engine's loop own.
serviceVars == <<data, finalize, chan, pc, rsp, out, submitted, last, pinned,
                 deleted, refData, refEngine, expect>>

\* After the loop: sock.cleanup().
EngineCleanup ==
  /\ code = None
  /\ engine = "final"
  /\ engine' = IF cleanup(sock).ok THEN "ok" ELSE "err"
  /\ sock' = cleanup(sock).exists
  /\ cleanups' = Append(cleanups, cleanup(sock).ok)
  /\ UNCHANGED <<serviceVars, timeout, wd, poll, idle, quiet, sig, code, wire, calc>>

\* After the loop: process::exit with the status of the cleanup.
EngineExit ==
  /\ code = None
  /\ engine \in {"ok", "err"}
  /\ code' = Some(ExitStatus(engine = "ok"))
  /\ UNCHANGED <<serviceVars, engine, sock, timeout, wd, poll, idle, quiet, sig,
                 cleanups, wire, calc>>

Next ==
  \/ \E s \in Sessions : \E cmd \in OpsOf(s) : SessionSubmit(s, cmd)
  \/ \E s \in Sessions : \E cmd \in OpsOf(s) : SessionSendError(s, cmd)
  \/ \E s \in Sessions : SessionReply(s)
  \/ \E s \in Sessions : SessionRecvError(s)
  \/ EngineGet
  \/ EngineRange
  \/ EngineSet
  \/ EngineDelete
  \/ EngineStop
  \/ EngineUnknown
  \/ EngineCleanup
  \/ EngineExit

Spec == Init /\ [][Next]_vars

(***************************************************************************)
(* The shutdown triggers (service.rs): the engine leaving its loop, the    *)
(* idle watchdog, the signal handler                                       *)
(***************************************************************************)

\* The configured idle timeout, in ticks of the clock.
IdleWindow == 2

Min(a, b) == IF a < b THEN a ELSE b

\* Time passes while the watchdog waits.
Tick ==
  /\ code = None
  /\ wd = "wait"
  /\ idle < timeout[1] \/ quiet < timeout[1]
  /\ idle' = Min(idle + 1, timeout[1])
  /\ quiet' = Min(quiet + 1, timeout[1])
  /\ UNCHANGED <<serviceVars, engine, sock, timeout, wd, poll, sig, code,
                 cleanups, wire, calc>>

\* recv_timeout that gives up before the window is over.
recv_timeout_early(n, waited, d, connected) ==
  IF n > 0 THEN {"ok"}
  ELSE (IF connected THEN {} ELSE {"disconnected"}) \cup {"timeout"}

\* Receiver::recv_timeout(d) on a channel of n messages whose sender is
\* connected or not, after the receiver waited `waited`: the results it can
\* return now (none: it blocks).
recv_timeout(n, waited, d, connected) ==
  IF n > 0 THEN {"ok"}
  ELSE (IF connected THEN {} ELSE {"disconnected"})
       \cup (IF waited >= d THEN {"timeout"} ELSE {})

\* What the watchdog's recv_timeout can return: the engine holds the sender
\* until run returns.
WatchdogWait == recv_timeout(poll, idle, timeout[1], engine # "failed")

\* The watchdog received a notification: it waits again, for a full window.
WatchdogRecv ==
  /\ code = None
  /\ wd = "wait"
  /\ "ok" \in WatchdogWait
  /\ poll' = poll - 1
  /\ idle' = 0
  /\ UNCHANGED <<serviceVars, engine, sock, timeout, wd, quiet, sig, code,
                 cleanups, wire, calc>>

\* The wait timed out: the watchdog leaves its loop and calls sock.cleanup().
WatchdogTimeout ==
  /\ code = None
  /\ wd = "wait"
  /\ "timeout" \in WatchdogWait
  /\ wd' = IF cleanup(sock).ok THEN "ok" ELSE "err"
  /\ sock' = cleanup(sock).exists
  /\ cleanups' = Append(cleanups, cleanup(sock).ok)
  /\ UNCHANGED <<serviceVars, engine, timeout, poll, idle, quiet, sig, code, wire, calc>>

\* The watchdog calls process::exit with the status of its cleanup.
WatchdogExit ==
  /\ code = None
  /\ wd \in {"ok", "err"}
  /\ code' = Some(ExitStatus(wd = "ok"))
  /\ UNCHANGED <<serviceVars, engine, sock, timeout, wd, poll, idle, quiet, sig,
                 cleanups, wire, calc>>

\* The channel ended: the watchdog's thread returns, which drops its Socket;
\* the drop calls cleanup and panics on Err.
WatchdogReturn ==
  /\ code = None
  /\ wd = "wait"
  /\ "disconnected" \in WatchdogWait
  /\ wd' = IF cleanup(sock).ok THEN "returned" ELSE "panicked"
  /\ sock' = cleanup(sock).exists
  /\ cleanups' = Append(cleanups, cleanup(sock).ok)
  /\ UNCHANGED <<serviceVars, engine, timeout, poll, idle, quiet, sig, code, wire, calc>>

\* A signal arrives: the handler calls sock.cleanup().
Signal ==
  /\ code = None
  /\ sig = "armed"
  /\ sig' = IF cleanup(sock).ok THEN "ok" ELSE "err"
  /\ sock' = cleanup(sock).exists
  /\ cleanups' = Append(cleanups, cleanup(sock).ok)
  /\ UNCHANGED <<serviceVars, engine, timeout, wd, poll, idle, quiet, code, wire, calc>>

\* The handler calls process::exit with the status of its cleanup.
SignalExit ==
  /\ code = None
  /\ sig \in {"ok", "err"}
  /\ code' = Some(ExitStatus(sig = "ok"))
  /\ UNCHANGED <<serviceVars, engine, sock, timeout, wd, poll, idle, quiet, sig,
                 cleanups, wire, calc>>

\* The operations the sessions submit while the triggers are watched.
LifeOps(s) ==
  IF s = 1 THEN FewOps \cup {Operation(CMD_DELETE, <<>>, None)}
  ELSE IF s = 2 THEN FewOps ELSE {new_delete(PathA)}

\* A daemon with or without an idle timeout.
LifeInit ==
  /\ timeout \in {None, Some(IdleWindow)}
  /\ Start

LifeNext ==
  \/ \E s \in Sessions : \E cmd \in LifeOps(s) : SessionSubmit(s, cmd)
  \/ \E s \in Sessions : \E cmd \in LifeOps(s) : SessionSendError(s, cmd)
  \/ \E s \in Sessions : SessionReply(s)
  \/ \E s \in Sessions : SessionRecvError(s)
  \/ EngineGet
  \/ EngineSet
  \/ EngineDelete
  \/ EngineStop
  \/ EngineCleanup
  \/ EngineExit
  \/ Tick
  \/ WatchdogRecv
  \/ WatchdogTimeout
  \/ WatchdogExit
  \/ WatchdogReturn
  \/ Signal
  \/ SignalExit

LifeSpec == LifeInit /\ [][LifeNext]_vars

\* The scheduler runs every thread that can take a step.
LifeFair ==
  /\ WF_vars(EngineCleanup) /\ WF_vars(EngineExit)
  /\ WF_vars(WatchdogRecv) /\ WF_vars(WatchdogTimeout) /\ WF_vars(WatchdogExit)
  /\ WF_vars(SignalExit)

FairLifeSpec == LifeSpec /\ LifeFair
(***************************************************************************)
(* The wire protocol (rpc.rs): frames of one or two lines on a byte stream *)
(***************************************************************************)

\* The frames written to a connection.
MaxFrames == 2

\* The characters str::trim removes.
IsSpace(c) == c \in {" ", "\n"}

RECURSIVE trim_start(_)
trim_start(s) == IF s # <<>> /\ IsSpace(Head(s)) THEN trim_start(Tail(s)) ELSE s

RECURSIVE trim_end(_)
trim_end(s) ==
  IF s # <<>> /\ IsSpace(s[Len(s)]) THEN trim_end(SubSeq(s, 1, Len(s) - 1)) ELSE s

\* str::trim.
trim_str(s) == trim_end(trim_start(s))

\* The characters of a verb, and the verb (a String) of a token.
VerbChars(name) ==
  CASE name = CMD_SET      -> <<"s", "e", "t">>
    [] name = CMD_GET      -> <<"g", "e", "t">>
    [] name = CMD_RANGE    -> <<"r", "a", "n", "g", "e">>
    [] name = CMD_FOUND    -> <<"f", "o", "u", "n", "d">>
    [] name = CMD_NONE     -> <<"n", "o", "n", "e">>
    [] name = CMD_DELETE   -> <<"d", "e", "l", "e", "t", "e">>
    [] name = CMD_SHUTDOWN -> <<"s", "t", "o", "p">>
    [] name = CMD_OK       -> <<"o", "k">>
    [] name = CMD_ERROR    -> <<"e", "r", "r", "o", "r">>

RECURSIVE VerbOf(_)
VerbOf(token) == IF token = <<>> THEN "" ELSE Head(token) \o VerbOf(Tail(token))

\* write_line: the tokens, each trimmed, with single spaces between them and
\* a newline after them.
RECURSIVE JoinTokens(_)
JoinTokens(tokens) ==
  IF tokens = <<>> THEN <<>>
  ELSE IF Len(tokens) = 1 THEN trim_str(tokens[1])
  ELSE trim_str(tokens[1]) \o <<" ">> \o JoinTokens(Tail(tokens))

write_line(tokens) == JoinTokens(tokens) \o <<"\n">>

\* write_cmd: the verb and the arguments on one line, then the payload, if
\* the operation has one, on a second line.
write_cmd(cmd) ==
  write_line(<<VerbChars(cmd.name)>> \o cmd.args)
  \o (IF IsSome(cmd.data) THEN write_line(<<cmd.data[1]>>) ELSE <<>>)

\* BufRead::read_line: the bytes up to and with the first newline, or all of
\* them when there is none, and the rest of the stream.
HasLine(stream) == \E i \in 1..Len(stream) : stream[i] = "\n"

LineEnd(stream) ==
  IF HasLine(stream)
  THEN CHOOSE i \in 1..Len(stream) :
         stream[i] = "\n" /\ \A j \in 1..(i - 1) : stream[j] # "\n"
  ELSE Len(stream)

read_line(stream) ==
  [line |-> SubSeq(stream, 1, LineEnd(stream)),
   rest |-> SubSeq(stream, LineEnd(stream) + 1, Len(stream))]

\* read_cmd's loop of split_once(" "): the texts between single spaces; a
\* text with no space is one token, the empty text too.
RECURSIVE split_args(_), split_args_at(_, _)
split_args(text) ==
  IF \A i \in 1..Len(text) : text[i] # " " THEN <<text>>
  ELSE split_args_at(text, CHOOSE i \in 1..Len(text) :
                             text[i] = " " /\ \A j \in 1..(i - 1) : text[j] # " ")

split_args_at(text, i) ==
  <<SubSeq(text, 1, i - 1)>> \o split_args(SubSeq(text, i + 1, Len(text)))

\* The results of read_cmd: no more operations, an error, an operation; and
\* the read that waits for more bytes of an open stream.
ReadEof == <<"eof">>
ReadErr(err) == <<"err", err>>
ReadOp(cmd) == <<"op", cmd>>
ReadWait == <<"wait">>

\* The verbs after whose line read_cmd reads a payload line.
PayloadVerbs == {CMD_SET, CMD_FOUND}

\* read_cmd from the verb's tokens on: the payload line, if the verb has one.
read_cmd_payload(args, rest, closed) ==
  IF VerbOf(args[1]) \in PayloadVerbs
  THEN IF HasLine(rest) \/ (closed /\ rest # <<>>)
       THEN [res |-> ReadOp(Operation(VerbOf(args[1]), Tail(args),
                                      Some(trim_str(read_line(rest).line)))),
             rest |-> read_line(rest).rest]
       ELSE IF closed THEN [res |-> ReadErr(ErrMalformed), rest |-> rest]
       ELSE [res |-> ReadWait, rest |-> rest]
  ELSE [res |-> ReadOp(Operation(VerbOf(args[1]), Tail(args), None)), rest |-> rest]

read_cmd_args(args, rest, closed) ==
  IF Len(args) < 1 THEN [res |-> ReadErr(ErrMalformed), rest |-> rest]
  ELSE read_cmd_payload(args, rest, closed)

\* read_cmd on the bytes of the stream not yet read, the stream closed by the
\* peer or not: the result and the bytes left.
read_cmd(stream, closed) ==
  IF HasLine(stream) \/ (closed /\ stream # <<>>)
  THEN read_cmd_args(split_args(trim_str(read_line(stream).line)),
                     read_line(stream).rest, closed)
  ELSE IF closed THEN [res |-> ReadEof, rest |-> stream]
  ELSE [res |-> ReadWait, rest |-> stream]

\* What a client writes to its connection: operations through write_cmd, and
\* lines of its own: an empty line, a line of one space, a Set's verb line
\* with no payload line after it, an Error's verb line with no message line
\* after it.
WireOps ==
  {new_get(PathA), new_range(PathAB), new_set(PathA, TextOne), new_set(PathAB, TextObj),
   new_delete(PathA), new_shutdown, new_found(PathA, TextObj), new_none(PathA),
   new_ok, new_error(ErrorText(ErrNotFound))}

WireLines ==
  {<<"\n">>, <<" ", "\n">>, <<"s", "e", "t", " ", "a", "\n">>,
   <<"e", "r", "r", "o", "r", "\n">>}

WireWrite(cmd) ==
  /\ ~wire.closed
  /\ Len(wire.sent) < MaxFrames
  /\ wire' = [wire EXCEPT !.stream = @ \o write_cmd(cmd),
                          !.sent = Append(@, <<"op", cmd>>)]
  /\ UNCHANGED <<serviceVars, engine, sock, lifeVars, calc>>

WireWriteLine(line) ==
  /\ ~wire.closed
  /\ Len(wire.sent) < MaxFrames
  /\ wire' = [wire EXCEPT !.stream = @ \o line, !.sent = Append(@, <<"line", line>>)]
  /\ UNCHANGED <<serviceVars, engine, sock, lifeVars, calc>>

\* The peer closes its end of the connection.
WireClose ==
  /\ ~wire.closed
  /\ wire' = [wire EXCEPT !.closed = TRUE]
  /\ UNCHANGED <<serviceVars, engine, sock, lifeVars, calc>>

\* The reader has read_cmd's result, as long as no read ended the stream.
WireApply(r) ==
  /\ r.res # ReadWait
  /\ wire' = [wire EXCEPT !.stream = r.rest, !.got = Append(@, r.res)]

WireRead ==
  /\ \A i \in 1..Len(wire.got) : wire.got[i][1] = "op"
  /\ WireApply(read_cmd(wire.stream, wire.closed))
  /\ UNCHANGED <<serviceVars, engine, sock, lifeVars, calc>>

WireNext ==
  \/ \E cmd \in WireOps : WireWrite(cmd)
  \/ \E line \in WireLines : WireWriteLine(line)
  \/ WireClose
  \/ WireRead

WireSpec == Init /\ [][WireNext]_vars

(***************************************************************************)
(* Calls of the path algebra (jsonpath.rs)                                 *)
(***************************************************************************)

\* Path::first that does not trim the whitespace around the path.
first_untrimmed(p) ==
  IF p = <<>> THEN [n |-> None, r |-> None]
  ELSE IF StrFind(p) > 0
  THEN [n |-> Some(SubSeq(p, 1, StrFind(p) - 1)),
        r |-> Some(SubSeq(p, StrFind(p) + 1, Len(p)))]
  ELSE [n |-> Some(p), r |-> None]

\* Path::first: the first segment of the trimmed path and the path after the
\* first separator.
first(p) ==
  LET t == trim_str(p)
      x == StrFind(t)
  IN  IF t = <<>> THEN [n |-> None, r |-> None]
      ELSE IF x > 0
      THEN [n |-> Some(SubSeq(t, 1, x - 1)), r |-> Some(SubSeq(t, x + 1, Len(t)))]
      ELSE [n |-> Some(t), r |-> None]

\* Path::last: the path before the last separator of the trimmed path and
\* the last segment.
Path_last(p) ==
  LET t == trim_str(p)
      x == StrRFind(t)
  IN  IF t = <<>> THEN [path |-> None, leaf |-> None]
      ELSE IF x > 0
      THEN [path |-> Some(SubSeq(t, 1, x - 1)), leaf |-> Some(SubSeq(t, x + 1, Len(t)))]
      ELSE [path |-> None, leaf |-> Some(t)]

\* The longest path a caller builds, in segments.
MaxSegs == 4

\* The segments a caller writes: member names, indices, an index with a
\* sign, the empty text.
SegNames == {<<"a">>, <<"b">>, <<"1">>, <<"2">>, <<"+", "1">>, <<>>}

\* The segments joined with the separator.
RECURSIVE JoinSegs(_)
JoinSegs(segs) ==
  IF Len(segs) = 1 THEN Head(segs)
  ELSE Head(segs) \o <<SEP>> \o JoinSegs(Tail(segs))

\* The paths a caller builds: one to MaxSegs segments, with or without a
\* space before and after.
Pads == {<<>>, <<" ">>}
PathTexts ==
  {l \o JoinSegs(segs) \o t :
     segs \in UNION {[1..n -> SegNames] : n \in 1..MaxSegs}, l \in Pads, t \in Pads}

\* The values a caller resolves a path against: {"b":{"a":1},"a":[0,1]}, 1,
\* [{"a":1},[0,1,2]] and {"":1,"1":{"a":[null]}}.
ValDoc == from_str(TextObj).v
ValArr == JArr(<<JObj(<<"a">> :> JNum(1)), JArr(<<JNum(0), JNum(1), JNum(2)>>)>>)
ValNames == JObj((<<>> :> JNum(1)) @@ (<<"1">> :> JObj(<<"a">> :> JArr(<<JNull>>))))
PathValues == {ValDoc, JNum(1), ValArr, ValNames}

\* What a call of a pure function leaves alone.
callFrame == <<serviceVars, engine, sock, lifeVars, wire>>

\* Path::new: a path of a text, on which nothing was called yet.
CallNew ==
  /\ calc = NoCalc
  /\ \E p \in PathTexts : calc' = [fn |-> "new", arg |-> <<p>>, res |-> p]
  /\ UNCHANGED callFrame

CallFind(v) ==
  /\ calc.fn = "new"
  /\ calc' = [fn |-> "find", arg |-> <<calc.res, v>>, res |-> find(calc.res, v)]
  /\ UNCHANGED callFrame

CallTrim(c) ==
  /\ calc.fn = "new"
  /\ calc' = [fn |-> "trim", arg |-> <<calc.res, c>>, res |-> trim(calc.res, c)]
  /\ UNCHANGED callFrame

CallFirst ==
  /\ calc.fn = "new"
  /\ calc' = [fn |-> "first", arg |-> <<calc.res>>, res |-> first(calc.res)]
  /\ UNCHANGED callFrame

CallLast ==
  /\ calc.fn = "new"
  /\ calc' = [fn |-> "last", arg |-> <<calc.res>>, res |-> Path_last(calc.res)]
  /\ UNCHANGED callFrame

PathNext ==
  \/ CallNew
  \/ \E v \in PathValues : CallFind(v)
  \/ \E c \in 0..(MaxSegs + 1) : CallTrim(c)
  \/ CallFirst
  \/ CallLast

PathSpec == Init /\ [][PathNext]_vars

(***************************************************************************)
(* The timeout duration parser (duration.rs)                               *)
(***************************************************************************)

ParseSyntaxError == "ParseSyntaxError"
ParseDurationError == "ParseDurationError"

\* Result<time::Duration, Error>: Ok of a number of seconds, Err of an error.
DurOk(secs) == <<"ok", secs>>
DurErr(err) == <<"err", err>>

\* The most digits value_primary takes for one number.
MaxDigits == 10

\* is_digit and is_unit, as the sets of the characters they accept.
is_digit == {"0", "1", "2", "3", "4", "5", "6", "7", "8", "9"}
is_unit == {"d", "h", "m", "s"}

\* nom's take_while_m_n(m, n, cond): the longest start of the input, of at
\* most n characters, that all satisfy cond; an error when it has fewer than
\* m characters.
TakeLen(n, cond, input) ==
  CHOOSE k \in 0..Min(n, Len(input)) :
    /\ \A i \in 1..k : input[i] \in cond
    /\ k = Min(n, Len(input)) \/ input[k + 1] \notin cond

NomErr(input) == [ok |-> FALSE, rest |-> input, out |-> 0]
NomOk(rest, o) == [ok |-> TRUE, rest |-> rest, out |-> o]

take_while_m_n(m, n, cond, input) ==
  IF TakeLen(n, cond, input) < m THEN [ok |-> FALSE, rest |-> input, out |-> <<>>]
  ELSE NomOk(SubSeq(input, TakeLen(n, cond, input) + 1, Len(input)),
             SubSeq(input, 1, TakeLen(n, cond, input)))

\* u64::from_str_radix(input, 10) on one to ten digits.
parse_value(input) == DecimalValue(input)

\* value_primary: one to MaxDigits digits, as a number.
value_primary(input) ==
  LET t == take_while_m_n(1, MaxDigits, is_digit, input)
  IN  IF t.ok THEN NomOk(t.rest, parse_value(t.out)) ELSE NomErr(input)

\* parse_unit that counts a minute as one second.
parse_unit_flat(input) ==
  CASE input = <<"d">> -> 60 * 60 * 24
    [] input = <<"h">> -> 60 * 60
    [] input = <<"m">> -> 1
    [] input = <<"s">> -> 1

\* parse_unit: the seconds of a unit.
parse_unit(input) ==
  CASE input = <<"d">> -> 60 * 60 * 24
    [] input = <<"h">> -> 60 * 60
    [] input = <<"m">> -> 60
    [] input = <<"s">> -> 1

\* unit_primary: one unit character, as its seconds.
unit_primary(input) ==
  LET t == take_while_m_n(1, 1, is_unit, input)
  IN  IF t.ok THEN NomOk(t.rest, parse_unit(t.out)) ELSE NomErr(input)

\* unit_value: a number and a unit, as the number of seconds.
unit_value(input) ==
  LET v == value_primary(input)
      u == unit_primary(v.rest)
  IN  IF v.ok /\ u.ok THEN NomOk(u.rest, v.out * u.out) ELSE NomErr(input)

\* parse: the loop over the terms of the trimmed input.
RECURSIVE parse_loop(_, _)
parse_loop(input, result) ==
  LET r == unit_value(input)
  IN  IF input = <<>> THEN DurOk(result)
      ELSE IF r.ok THEN parse_loop(r.rest, result + r.out)
      ELSE DurErr(ParseSyntaxError)

parse(input) ==
  IF Len(trim_str(input)) = 0 THEN DurErr(ParseDurationError)
  ELSE parse_loop(trim_str(input), 0)

\* The longest text of the short texts given as a timeout.
MaxDurLen == 4

\* The characters of the short texts, and longer texts: 1h1m with spaces
\* around it, three terms, a number of ten digits, a number of eleven digits.
DurChars == {"0", "1", "2", "d", "h", "m", "s", " ", "x"}
DurLong ==
  {<<" ", "1", "h", "1", "m", " ">>,
   <<"1", "d", "1", "0", "h", "1", "d">>,
   <<"1", "0", "0", "0", "0", "0", "0", "0", "0", "0", "s">>,
   <<"1", "0", "0", "0", "0", "0", "0", "0", "0", "0", "0", "s">>}
DurationTexts == UNION {[1..n -> DurChars] : n \in 0..MaxDurLen} \cup DurLong

\* Duration::from_str on the text given as the timeout.
CallParse ==
  /\ calc = NoCalc
  /\ \E t \in DurationTexts : calc' = [fn |-> "parse", arg |-> <<t>>, res |-> parse(t)]
  /\ UNCHANGED callFrame

DurationSpec == Init /\ [][CallParse]_vars

(***************************************************************************)
(* The claims                                                              *)
(***************************************************************************)

\* The segments of a path: the texts between the separators.
RECURSIVE Segments(_)
Segments(p) ==
  IF \A i \in 1..Len(p) : p[i] # SEP THEN <<p>>
  ELSE LET x == CHOOSE i \in 1..Len(p) : p[i] = SEP /\ \A j \in 1..(i-1) : p[j] # SEP
       IN  <<SubSeq(p, 1, x - 1)>> \o Segments(SubSeq(p, x + 1, Len(p)))

\* A segment that is a non-negative integer: digits, with or without a plus
\* sign before them.
IndexDigits(seg) == IF seg # <<>> /\ Head(seg) = "+" THEN Tail(seg) ELSE seg
IsIndex(seg) ==
  IndexDigits(seg) # <<>> /\ \A i \in 1..Len(IndexDigits(seg)) : IsDigit(IndexDigits(seg)[i])

\* The child of a value that a segment names: a member of an object, an
\* element of an array at an index in bounds, nothing of a scalar.
Child(v, seg) ==
  CASE Tag(v) = "obj" -> IF seg \in DOMAIN v[2] THEN Some(v[2][seg]) ELSE None
    [] Tag(v) = "arr" ->
         IF IsIndex(seg) /\ DecimalValue(IndexDigits(seg)) < Len(v[2])
         THEN Some(v[2][DecimalValue(IndexDigits(seg)) + 1]) ELSE None
    [] OTHER -> None

\* The value the segments lead to from v, if every one of them resolves.
RECURSIVE Resolve(_, _)
Resolve(v, segs) ==
  IF segs = <<>> THEN Some(v)
  ELSE IF IsSome(Child(v, Head(segs))) THEN Resolve(Child(v, Head(segs))[1], Tail(segs))
  ELSE None

\* The value a whole path names in a mapping.
Lookup(store, path) ==
  IF Head(Segments(path)) \in DOMAIN store
  THEN Resolve(store[Head(Segments(path))], Tail(Segments(path)))
  ELSE None

\* v with the position the segments name replaced by new.
RECURSIVE ReplaceAt(_, _, _)
ReplaceAt(v, segs, new) ==
  IF segs = <<>> THEN new
  ELSE IF Tag(v) = "obj"
  THEN JObj(MapInsert(v[2], Head(segs),
                      IF Len(segs) = 1 THEN new
                      ELSE ReplaceAt(v[2][Head(segs)], Tail(segs), new)))
  ELSE JArr([v[2] EXCEPT ![DecimalValue(Head(segs)) + 1] =
                            ReplaceAt(@, Tail(segs), new)])

IsComposite(v) == Tag(v) \in {"obj", "arr"}

IsPrefix(a, b) == Len(a) <= Len(b) /\ SubSeq(b, 1, Len(a)) = a

\* The engine handled last a request of the verb with one argument.
Handled1(verb) == last.op.name = verb /\ Len(last.op.args) = 1

\* The engine handled last a Set with one argument and a payload of valid JSON.
HandledSet == Handled1(CMD_SET) /\ IsSome(last.op.data) /\ from_str(last.op.data[1]).ok

LastPath == last.op.args[1]
LastKey == Head(Segments(LastPath))
LastRest == Tail(Segments(LastPath))
LastValue == from_str(last.op.data[1]).v

IsFound(reply) == IsSome(reply) /\ reply[1].name = CMD_FOUND /\ IsSome(reply[1].data)

\* C1: a Get of a top-level key, after a Set of that key replied ok and with no
\* Set or Delete on the key in between, replies found with a payload that is
\* structurally equal to the payload of the Set.
C1_SetThenGet ==
  (Handled1(CMD_GET) /\ LastPath \in DOMAIN pinned) =>
    /\ IsFound(last.reply)
    /\ last.reply[1].args = <<LastPath>>
    /\ from_str(last.reply[1].data[1]) = from_str(pinned[LastPath])

C1_Witness ==
  /\ last.op = new_get(PathA)
  /\ PathA \in DOMAIN pinned /\ pinned[PathA] = TextObj
  /\ IsFound(last.reply) /\ last.reply[1].data[1] # TextObj

\* C2 (as claimed): a Set at a nested path that names a position inside the
\* composite value stored under the key replies ok, the stored value becomes
\* the old value with only that position replaced, a Get of the path finds
\* the new value, and a Get of every sibling path replies as before.
C2_NestedSet ==
  (/\ HandledSet /\ LastRest # <<>>
   /\ LastKey \in DOMAIN last.before
   /\ IsComposite(last.before[LastKey])
   /\ IsSome(Resolve(last.before[LastKey], LastRest))) =>
    /\ last.reply = Some(new_ok)
    /\ LastKey \in DOMAIN data
    /\ data[LastKey] = ReplaceAt(last.before[LastKey], LastRest, LastValue)
    /\ run_get(data, new_get(LastPath)).reply
         = Some(new_found(LastPath, to_string(LastValue)))
    /\ \A q \in Paths :
         (/\ Head(Segments(q)) = LastKey
          /\ ~IsPrefix(Segments(q), Segments(LastPath))
          /\ ~IsPrefix(Segments(LastPath), Segments(q)))
         => run_get(data, new_get(q)).reply = run_get(last.before, new_get(q)).reply

\* C3: a Set at a nested path whose key is not in the mapping replies error
\* with the not-found message and leaves the mapping as it was.
C3_NestedSetMissingKey ==
  (HandledSet /\ LastRest # <<>> /\ LastKey \notin DOMAIN last.before) =>
    /\ last.reply = Some(new_error(<<"N", "o", "t", " ", "f", "o", "u", "n", "d">>))
    /\ data = last.before

C3_Witness ==
  /\ last.op = new_set(PathBA, TextOne)
  /\ DOMAIN last.before = {PathA}
  /\ IsSome(last.reply)

\* The container a nested Set updates: the value under the key when the rest
\* of the path is one segment, else what the segments before the last lead to.
LastParent == Resolve(last.before[LastKey], SubSeq(LastRest, 1, Len(LastRest) - 1))
LastLeaf == LastRest[Len(LastRest)]

IsErrorReply(reply) == IsSome(reply) /\ reply[1].name = CMD_ERROR

\* C4: every Set with a valid payload replies ok, or replies error and leaves
\* the mapping as it was; a nested Set on an existing key replies error when
\* its parent path does not resolve, when its parent is a scalar, and when its
\* parent is an array and the leaf is not an index in bounds.
C4_SetFailsUnchanged ==
  HandledSet =>
    /\ last.reply = Some(new_ok) \/ (IsErrorReply(last.reply) /\ data = last.before)
    /\ (/\ LastRest # <<>>
        /\ LastKey \in DOMAIN last.before
        /\ \/ ~IsSome(LastParent)
           \/ ~IsComposite(LastParent[1])
           \/ /\ Tag(LastParent[1]) = "arr"
              /\ ~IsSome(Child(LastParent[1], LastLeaf)))
       => (IsErrorReply(last.reply) /\ data = last.before)

C4_Witness ==
  /\ last.op = new_set(PathAA2, TextOne)
  /\ PathA \in DOMAIN last.before
  /\ last.before[PathA] = from_str(TextObj).v
  /\ IsErrorReply(last.reply)

\* C5: a Get of a key, after a Delete of that key and with no Set on the key
\* in between, replies none, whether the key was in the mapping or not.
C5_DeleteThenGet ==
  (Handled1(CMD_GET) /\ LastPath \in deleted) => last.reply = Some(new_none(LastPath))

C5_Witness ==
  /\ last.op = new_get(PathA)
  /\ PathA \in deleted
  /\ last.reply = Some(new_none(PathA))
  /\ out[1] = 2

\* C6 (as claimed): a Delete removes the entry whose key is the first segment
\* of its path and replies ok.
C6_DeleteFirstSegment ==
  Handled1(CMD_DELETE) =>
    /\ last.reply = Some(new_ok)
    /\ data = MapRemove(last.before, LastKey)

\* The reply a Get of the path should give on the mapping.
ExpectedGet(store, path) ==
  IF IsSome(Lookup(store, path))
  THEN new_found(path, to_string(Lookup(store, path)[1]))
  ELSE new_none(path)

\* C7: a Get with one argument replies none when the key is absent or some
\* segment of the rest does not resolve, and found with the stored value or
\* the sub-value the rest resolves to; it replies nothing else.
C7_GetReply ==
  Handled1(CMD_GET) => last.reply = Some(ExpectedGet(last.before, LastPath))

C7_Witness ==
  /\ last.op = new_get(PathABA)
  /\ last.reply = Some(new_found(PathABA, <<"1">>))
  /\ Tag(last.before[PathA]) = "obj"

\* The names in a JSON array of strings ascend strictly.
Ascending(a) == \A i \in 1..(Len(a) - 1) : StrLess(a[i][2], a[i + 1][2])

\* C8: a Range replies found with the indices 0..n-1 for an array of length n,
\* found with the member names in ascending order for an object, and none for
\* a scalar and for a path that does not resolve.
C8_RangeReply ==
  Handled1(CMD_RANGE) =>
    LET r == Lookup(last.before, LastPath)
    IN  IF IsSome(r) /\ Tag(r[1]) = "arr"
        THEN /\ IsFound(last.reply)
             /\ last.reply[1].args = <<LastPath>>
             /\ from_str(last.reply[1].data[1]) =
                  [ok |-> TRUE, v |-> JArr([i \in 1..Len(r[1][2]) |-> JNum(i - 1)])]
        ELSE IF IsSome(r) /\ Tag(r[1]) = "obj"
        THEN /\ IsFound(last.reply)
             /\ last.reply[1].args = <<LastPath>>
             /\ LET t == from_str(last.reply[1].data[1])
                IN  /\ t.ok /\ Tag(t.v) = "arr"
                    /\ \A i \in 1..Len(t.v[2]) : Tag(t.v[2][i]) = "str"
                    /\ {t.v[2][i][2] : i \in 1..Len(t.v[2])} = DOMAIN r[1][2]
                    /\ Ascending(t.v[2])
        ELSE last.reply = Some(new_none(LastPath))

C8_Witness ==
  /\ last.op = new_range(PathA)
  /\ PathA \in DOMAIN last.before
  /\ last.before[PathA] = from_str(TextObj).v
  /\ IsFound(last.reply)

\* C9 (as claimed): the request the engine took last has exactly one reply on
\* its reply channel, as long as its session has not received it.
C9_OneReplyPerRequest ==
  \A s \in Sessions :
    (last.from = s /\ pc[s] = "wait" /\ ~InChan(s)) => Len(rsp[s]) = 1

\* The engine's state and mapping after it handles the requests of q in order.
RECURSIVE Replay(_, _, _)
ReplayStep(r, q) == Replay(r.h.store, r.to, Tail(q))
Replay(store, eng, q) ==
  IF q = <<>> \/ eng # "run" THEN [store |-> store, eng |-> eng]
  ELSE ReplayStep(Step(store, finalize, Head(q).op), q)

\* C10: the mapping and the replies are those of handling the requests one by
\* one in the order of their arrival on the shared channel: what the engine
\* has still to handle leads from its mapping to the mapping of the sequential
\* execution, and every reply not yet received is the sequential one.
C10_ArrivalOrder ==
  /\ Replay(data, IF engine \in {"ok", "err"} THEN "final" ELSE engine, chan)
       = [store |-> refData, eng |-> refEngine]
  /\ \A s \in Sessions : (pc[s] = "wait" /\ ~InChan(s)) => rsp[s] = expect[s]

C10_Witness ==
  /\ last.from = 1 /\ last.op = new_get(PathA)
  /\ last.reply = Some(new_found(PathA, <<"1">>))
  /\ pc[2] = "wait" /\ rsp[2] = <<new_ok>>
  /\ out[1] = 1

\* The requests of session s not yet answered to its client: those in the
\* shared channel and the replies on its reply channel.
Outstanding(s) ==
  Cardinality({i \in 1..Len(chan) : chan[i].from = s}) + Len(rsp[s])

\* C11: a session has at most one request outstanding: it reads its next
\* operation only with none outstanding, and a request is outstanding only
\* while its session waits for the reply.
C11_OneOutstanding ==
  \A s \in Sessions :
    /\ Outstanding(s) <= 1
    /\ (pc[s] = "read" => Outstanding(s) = 0)
    /\ (Outstanding(s) = 1 => pc[s] = "wait")

\* A session whose first reply was written has its second request in the channel.
C11_Witness == \E s \in Sessions : out[s] >= 1 /\ InChan(s) /\ pc[s] = "wait"

\* A request with the wrong number of arguments, or a Set whose payload is
\* not JSON.
IsMalformed(cmd) ==
  \/ cmd.name \in {CMD_GET, CMD_RANGE, CMD_DELETE} /\ Len(cmd.args) # 1
  \/ cmd.name = CMD_SET /\ Len(cmd.args) # 1
  \/ cmd.name = CMD_SET /\ IsSome(cmd.data) /\ ~from_str(cmd.data[1]).ok

\* C12 (as claimed): after the engine handled a malformed request the mapping
\* is as before and the engine is still in its loop.
C12_MalformedContinues ==
  IsMalformed(last.op) => (data = last.before /\ engine = "run")

\* The engine handled last a request whose verb it does not know.
HandledUnknown ==
  last.from \in Sessions
  /\ last.op.name \notin {CMD_GET, CMD_RANGE, CMD_SET, CMD_DELETE, CMD_SHUTDOWN}

\* C13 (as claimed): after the engine handled a request of an unknown verb its
\* session stays blocked on its reply channel.
C13_UnknownVerbBlocks ==
  HandledUnknown => (pc[last.from] = "wait" /\ rsp[last.from] = <<>>)

\* C13 (amended): after the engine handled a request of an unknown verb no
\* reply was sent, the mapping is as before, the engine is still in its loop,
\* and the session either still waits or has ended on the receive error of
\* its dropped reply channel.
C13_UnknownVerbDropped ==
  HandledUnknown =>
    /\ last.reply = None
    /\ rsp[last.from] = <<>>
    /\ data = last.before
    /\ engine = "run"
    /\ pc[last.from] \in {"wait", "failed"}

\* The session of the unknown verb has ended on the receive error.
C13_Witness == HandledUnknown /\ pc[last.from] = "failed" /\ engine = "run"

\* The engine is out of its loop by a break: before, in or after the cleanup.
OutOfLoop == engine \in {"final", "ok", "err"}

\* The engine has run its cleanup, after which the endpoint does not exist.
EngineCleaned == engine \in {"ok", "err"} => ~sock

\* C14: after the engine handled a stop it has sent the reply ok and is out
\* of its loop, on its way through the cleanup to the exit of the process;
\* the mapping is as it was, and the requests behind the stop stay in the
\* channel, their sessions waiting with no reply; the process then exits.
C14_StopShutsDown ==
  /\ [](last.op.name = CMD_SHUTDOWN =>
          /\ last.reply = Some(new_ok)
          /\ OutOfLoop /\ EngineCleaned
          /\ data = last.before
          /\ \A s \in Sessions : InChan(s) => (pc[s] = "wait" /\ rsp[s] = <<>>))
  /\ [][last.op.name = CMD_SHUTDOWN =>
          (data' = data /\ Len(chan') >= Len(chan) /\ last' = last)]_vars
  /\ (last.op.name = CMD_SHUTDOWN ~> IsSome(code))

\* The process exited on the engine's exit after a stop, with a request of
\* another session still in the channel.
C14_Witness ==
  /\ last.op.name = CMD_SHUTDOWN /\ IsSome(code) /\ engine = "ok"
  /\ \E s \in Sessions : InChan(s)

\* The engine handled last a Delete that removed the last key.
DeletedLastKey ==
  /\ last.op.name = CMD_DELETE /\ Len(last.op.args) = 1
  /\ DOMAIN last.before # {} /\ DOMAIN data = {}

\* C15: in finalize mode a Delete that removes the last key is answered ok
\* and takes the engine out of its loop, through the cleanup to the exit of
\* the process; with finalize off the engine is never out of its loop after
\* a Delete.
C15_FinalizeOnEmpty ==
  /\ []((finalize /\ DeletedLastKey) =>
          (last.reply = Some(new_ok) /\ OutOfLoop /\ EngineCleaned))
  /\ []((~finalize /\ last.op.name = CMD_DELETE) => ~OutOfLoop)
  /\ ((finalize /\ DeletedLastKey) ~> IsSome(code))

\* The process exited on the engine's exit after the Delete of the last key.
C15_Witness ==
  finalize /\ DeletedLastKey /\ engine = "ok" /\ code = Some(0) /\ ~sock

C17_CleanupIdempotent ==
  /\ \A i \in 1..Len(cleanups) : cleanups[i]
  /\ wd # "panicked"
  /\ IsSome(code) => code[1] = 0

\* C18: the endpoint is removed at most once, by whichever call of cleanup
\* comes first, and does not exist once the process has exited.
C18_RemovedOnce ==
  /\ Cardinality({i \in 1..Len(cleanups) : cleanups[i]}) <= 1
  /\ (cleanups # <<>> => (cleanups[1] /\ ~sock))
  /\ (IsSome(code) => ~sock)

\* Two triggers ran the cleanup and the process has exited.
C18_Witness == Len(cleanups) >= 2 /\ IsSome(code) /\ ~sock

\* The first n frames on the connection were written by write_cmd.
AllWritten(n) == \A i \in 1..n : wire.sent[i][1] = "op"

\* The bytes of the frames from the n-th on.
RECURSIVE FramesFrom(_)
FramesFrom(n) ==
  IF n > Len(wire.sent) THEN <<>>
  ELSE (IF wire.sent[n][1] = "op" THEN write_cmd(wire.sent[n][2]) ELSE wire.sent[n][2])
       \o FramesFrom(n + 1)

\* The reads so far that read a frame (a read after the last frame finds the
\* end of the stream).
FramesRead == Min(Len(wire.got), Len(wire.sent))

\* C19 (as claimed): the reads of frames that write_cmd wrote give the
\* operations written, with their payloads, and leave the stream at the
\* start of the next frame.
C19_PayloadVerbs ==
  AllWritten(FramesRead) =>
    /\ \A i \in 1..FramesRead : wire.got[i] = ReadOp(wire.sent[i][2])
    /\ wire.stream = FramesFrom(FramesRead + 1)

\* C20 (as claimed): the read of a first line with no token on it gives the
\* error Malformed.
C20_ZeroTokens ==
  (/\ Len(wire.sent) >= 1 /\ Len(wire.got) >= 1
   /\ wire.sent[1][1] = "line" /\ trim_str(wire.sent[1][2]) = <<>>)
    => wire.got[1] = ReadErr(ErrMalformed)

\* The verb on the line of the first frame, a line the client wrote itself.
FirstLineVerb == VerbOf(split_args(trim_str(read_line(wire.sent[1][2]).line))[1])

\* The connection carried one frame, a verb line of a verb that has a payload
\* (Set, Found, Error), and the stream ended after it.
VerbLineThenEnd ==
  /\ Len(wire.sent) = 1 /\ wire.sent[1][1] = "line" /\ wire.closed
  /\ trim_str(wire.sent[1][2]) # <<>>
  /\ FirstLineVerb \in {CMD_SET, CMD_FOUND, CMD_ERROR}

\* C21 (as claimed): a read at the end of a stream that carried nothing gives
\* "no more operations" and not an error; a read after the verb line of a
\* verb that has a payload, the stream ended before the payload line, gives
\* the error Malformed.
C21_EndOfStream ==
  /\ (wire.closed /\ wire.sent = <<>> /\ Len(wire.got) >= 1) => wire.got[1] = ReadEof
  /\ (VerbLineThenEnd /\ Len(wire.got) >= 1) => wire.got[1] = ReadErr(ErrMalformed)

\* The value under the key is a container that takes the one segment of the
\* rest: an object, or an array with the segment an index in bounds.
RootTakesLeaf ==
  \/ Tag(last.before[LastKey]) = "obj"
  \/ Tag(last.before[LastKey]) = "arr" /\ IsSome(Child(last.before[LastKey], LastRest[1]))

\* C26 (as claimed): a Set at a path of a key and one more segment, the value
\* under the key an object, or an array with the segment an index in bounds,
\* replies ok and stores the value with that member or element set.
C26_RootParent ==
  (/\ HandledSet /\ Len(LastRest) = 1 /\ LastRest[1] # <<>>
   /\ LastKey \in DOMAIN last.before
   /\ RootTakesLeaf) =>
    /\ last.reply = Some(new_ok)
    /\ LastKey \in DOMAIN data
    /\ data[LastKey] = ReplaceAt(last.before[LastKey], LastRest, LastValue)

\* C27 (as claimed): in finalize mode the engine is out of its loop after a
\* Delete only when the mapping was not empty before the Delete and is empty
\* after it; a Delete handled on an empty mapping leaves the engine in its
\* loop.
C27_FinalizeOnlyWhenEmptied ==
  (finalize /\ last.op.name = CMD_DELETE /\ OutOfLoop) =>
    (DOMAIN last.before # {} /\ DOMAIN data = {})

\* C28: the reply channel of a session's request holds at most one reply, and
\* holds it only while that session waits and after the engine took the
\* request; the engine puts a reply only on the channel of the session that
\* created the request it handles, and never a second one; a session takes a
\* reply only off the channel of its own request.
C28_OwnReply ==
  /\ [](\A s \in Sessions :
          /\ Len(rsp[s]) <= 1
          /\ (rsp[s] # <<>> => (pc[s] = "wait" /\ ~InChan(s))))
  /\ [][\A s \in Sessions :
          /\ (rsp'[s] # rsp[s] /\ rsp'[s] # <<>>) =>
               (/\ chan # <<>> /\ recv(chan).req.from = s
                /\ pc[s] = "wait" /\ rsp[s] = <<>>
                /\ \A t \in Sessions \ {s} : rsp'[t] = rsp[t])
          /\ (out'[s] # out[s]) =>
               (/\ out'[s] = out[s] + 1
                /\ rsp[s] # <<>> /\ rsp'[s] = Tail(rsp[s])
                /\ \A t \in Sessions \ {s} : rsp'[t] = rsp[t])]_vars

\* The second session holds the reply to its request, the first session has
\* received one and has its next request in the channel.
C28_Witness ==
  /\ rsp[2] # <<>> /\ last.from = 2
  /\ out[1] = 1 /\ InChan(1)

\* C29: after the engine handled a Get or a Range, whatever it replied or did
\* not reply, the mapping is the mapping of before; a turn of the engine
\* that changes the mapping is the turn of a Set or of a Delete.
C29_ReadsKeepMapping ==
  /\ [](last.op.name \in {CMD_GET, CMD_RANGE} => data = last.before)
  /\ [][data' # data =>
          (chan # <<>> /\ recv(chan).req.op.name \in {CMD_SET, CMD_DELETE})]_vars

\* The engine handled a Range of a path inside the value of an entry and
\* replied found.
C29_Witness ==
  /\ last.op = new_range(PathAB)
  /\ PathA \in DOMAIN last.before
  /\ IsFound(last.reply)

\* C30: after the engine handled a Set or a Delete with one path, the keys
\* other than the path's top-level key are the keys of before, and the value
\* under each of them is the value of before, whether the reply was ok, an
\* error or none.
C30_OtherKeysKept ==
  (Handled1(CMD_SET) \/ Handled1(CMD_DELETE)) =>
    /\ DOMAIN data \ {LastKey} = DOMAIN last.before \ {LastKey}
    /\ \A k \in DOMAIN data \ {LastKey} : data[k] = last.before[k]

\* A Set of the second key replied ok, with the first key's entry in the
\* mapping before it and after it.
C30_Witness ==
  /\ PathA \in DOMAIN last.before /\ PathA \in DOMAIN data
  /\ last.op = new_set(PathB, TextOne) /\ last.reply = Some(new_ok)
  /\ PathB \in DOMAIN data

\* The child a segment names where the path goes on or ends: as Child, but
\* an empty text at the end of a path is no segment and names nothing.
ChildAt(v, segs) ==
  IF Len(segs) = 1 /\ Head(segs) = <<>> THEN None ELSE Child(v, Head(segs))

\* What the segments lead to from v: the value and no remainder when every
\* segment resolves, else no value and the path from the first segment that
\* does not resolve.
RECURSIVE Walk(_, _)
Walk(v, segs) ==
  IF segs = <<>> THEN [v |-> Some(v), p |-> None]
  ELSE IF IsSome(ChildAt(v, segs)) THEN Walk(ChildAt(v, segs)[1], Tail(segs))
  ELSE [v |-> None, p |-> Some(JoinSegs(segs))]

TrimOf(p, segs, n) ==
  IF n = 0 THEN [path |-> Some(p), leaf |-> None]
  ELSE IF n < Len(segs)
  THEN [path |-> Some(JoinSegs(SubSeq(segs, 1, Len(segs) - n))),
        leaf |-> Some(segs[Len(segs) - n + 1])]
  ELSE [path |-> None, leaf |-> None]

\* C23: for a path of m segments, trim(0) gives the whole path and no
\* segment, trim(n) with 1 <= n < m the path of the first m - n segments and
\* the segment at position m - n + 1, and trim(n) with n >= m gives
\* (None, None).
C23_Trim ==
  calc.fn = "trim" => calc.res = TrimOf(calc.arg[1], Segments(calc.arg[1]), calc.arg[2])

\* trim(2) of a path of four segments gave the first two and the third.
C23_Witness ==
  /\ calc.fn = "trim"
  /\ calc.arg = <<<<"a", ".", "b", ".", "1", ".", "2">>, 2>>
  /\ calc.res = [path |-> Some(<<"a", ".", "b">>), leaf |-> Some(<<"1">>)]

\* The path without the whitespace around it.
RECURSIVE Stripped(_)
Stripped(p) ==
  IF p = <<>> THEN p
  ELSE IF p[1] = " " THEN Stripped(Tail(p))
  ELSE IF p[Len(p)] = " " THEN Stripped(SubSeq(p, 1, Len(p) - 1))
  ELSE p

\* What first and last give for the stripped path t of the segments segs.
FirstOf(t, segs) ==
  IF t = <<>> THEN [n |-> None, r |-> None]
  ELSE IF Len(segs) = 1 THEN [n |-> Some(segs[1]), r |-> None]
  ELSE [n |-> Some(segs[1]), r |-> Some(JoinSegs(Tail(segs)))]

LastOf(t, segs) ==
  IF t = <<>> THEN [path |-> None, leaf |-> None]
  ELSE IF Len(segs) = 1 THEN [path |-> None, leaf |-> Some(segs[1])]
  ELSE [path |-> Some(JoinSegs(SubSeq(segs, 1, Len(segs) - 1))),
        leaf |-> Some(segs[Len(segs)])]

\* C24: first gives the first segment of the path without the whitespace
\* around it and the path of the other segments, last the path of all
\* segments but the last and the last segment; for a path of one segment the
\* other part is None; both parts are None for an empty path and for a path
\* of whitespace; the two parts joined with the separator are the path
\* without the whitespace around it.
C24_FirstLast ==
  /\ calc.fn = "first" =>
       /\ calc.res = FirstOf(Stripped(calc.arg[1]), Segments(Stripped(calc.arg[1])))
       /\ IsSome(calc.res.r) =>
            calc.res.n[1] \o <<SEP>> \o calc.res.r[1] = Stripped(calc.arg[1])
  /\ calc.fn = "last" =>
       /\ calc.res = LastOf(Stripped(calc.arg[1]), Segments(Stripped(calc.arg[1])))
       /\ IsSome(calc.res.path) =>
            calc.res.path[1] \o <<SEP>> \o calc.res.leaf[1] = Stripped(calc.arg[1])

\* first split a path of three segments with spaces around it.
C24_Witness ==
  /\ calc.fn = "first"
  /\ calc.arg = << <<" ", "a", ".", "b", ".", "1", " ">> >>
  /\ calc.res = [n |-> Some(<<"a">>), r |-> Some(<<"b", ".", "1">>)]

\* The text given to the duration parser, without the whitespace around it.
DurText == Stripped(calc.arg[1])

IsUnit(c) == c \in {"d", "h", "m", "s"}
UnitSeconds(c) ==
  CASE c = "d" -> 86400 [] c = "h" -> 3600 [] c = "m" -> 60 [] c = "s" -> 1

\* s is one or more terms, each a decimal number and a unit after it.
IsTerms(s) ==
  /\ s # <<>>
  /\ \A i \in 1..Len(s) : IsDigit(s[i]) \/ IsUnit(s[i])
  /\ IsDigit(s[1]) /\ IsUnit(s[Len(s)])
  /\ \A i \in 2..Len(s) : IsUnit(s[i]) => IsDigit(s[i - 1])

\* No number of s has more than n digits.
DigitsWithin(s, n) == \A i \in 1..(Len(s) - n) : \E j \in i..(i + n) : ~IsDigit(s[j])

\* The number before the unit at position i of s, times the unit's seconds.
NumberStart(s, i) ==
  CHOOSE k \in 1..(i - 1) :
    /\ \A j \in k..(i - 1) : IsDigit(s[j])
    /\ k = 1 \/ ~IsDigit(s[k - 1])
TermSeconds(s, i) == DecimalValue(SubSeq(s, NumberStart(s, i), i - 1)) * UnitSeconds(s[i])

\* The sum of the terms of s up to position i.
RECURSIVE TermSum(_, _)
TermSum(s, i) ==
  IF i = 0 THEN 0
  ELSE (IF IsUnit(s[i]) THEN TermSeconds(s, i) ELSE 0) + TermSum(s, i - 1)

\* C25 (as claimed): the parser accepts, whitespace around the text aside,
\* exactly the texts of one or more terms of a decimal number and a unit, and
\* gives the sum of number times seconds of the unit over the terms; an
\* empty text is a duration error and any other text a syntax error.
C25_DurationParser ==
  calc.fn = "parse" =>
    /\ DurText = <<>> => calc.res = DurErr(ParseDurationError)
    /\ IsTerms(DurText) => calc.res[1] = "ok"
    /\ (DurText # <<>> /\ ~IsTerms(DurText)) => calc.res = DurErr(ParseSyntaxError)
    /\ calc.res[1] = "ok" => calc.res[2] = TermSum(DurText, Len(DurText))

\* C25: as claimed for the texts whose numbers have one to ten digits; a
\* text with a number of more than ten digits is a syntax error.
C25_DurationTerms ==
  calc.fn = "parse" =>
    /\ DurText = <<>> => calc.res = DurErr(ParseDurationError)
    /\ (IsTerms(DurText) /\ DigitsWithin(DurText, 10)) =>
         calc.res = DurOk(TermSum(DurText, Len(DurText)))
    /\ (DurText # <<>> /\ ~(IsTerms(DurText) /\ DigitsWithin(DurText, 10))) =>
         calc.res = DurErr(ParseSyntaxError)

\* The parser summed three terms, two of them of the same unit.
C25_Witness ==
  /\ calc.fn = "parse"
  /\ calc.arg = << <<"1", "d", "1", "0", "h", "1", "d">> >>
  /\ calc.res = DurOk(208800)

\* The engine left its loop on a stop Request or on a finalizing Delete that
\* it answered ok, and the ok sent to session s is still on the session's
\* reply channel: handle has not received it nor written it to the connection.
ReplyOnlyOnChannel(s) ==
  /\ engine \in {"final", "ok", "err"}
  /\ last.op.name \in {CMD_SHUTDOWN, CMD_DELETE}
  /\ last.from = s
  /\ last.reply = Some(new_ok)
  /\ rsp[s] # <<>>

\* C31: when the process has exited after a stop Request or a finalizing
\* Delete, the ok reply to that request has been written to the requesting
\* client's connection: the process never exits while the reply is still
\* only on the reply channel.
C31_ReplyBeforeExit ==
  IsSome(code) => \A s \in Sessions : ~ReplyOnlyOnChannel(s)
=============================================================================
